---- MODULE Spec2Model ----
(***************************************************************************)
(* Model of the Apollo MCP server's tool executors (search, enrich), the   *)
(* provider client (ApolloClient) and its two normalizers.                 *)
(*                                                                         *)
(* JavaScript values.  An optional or nullable value is a set with at most *)
(* one element: Null (the empty set) stands for undefined, null or a       *)
(* missing key, and Some(v) for the value v.  An object is a record of     *)
(* such values, so "the key is omitted" reads  obj.key = Null  and "sent   *)
(* as false" reads  obj.key = Some(FALSE).  Lists are sequences.           *)
(***************************************************************************)
EXTENDS Integers, Sequences, FiniteSets, TLC

VARIABLES
    pc,                \* position of the running tool invocation
    tool,              \* "none", "search", "enrich" or "search_and_enrich"
    input,             \* the caller's raw input of the invocation
    serverWebhookUrl,  \* third argument of executeEnrichPerson
    apiKey,            \* ApolloClient.apiKey
    body,              \* request body of the POST in flight / last sent
    posts,             \* number of HTTP POSTs of the invocation
    reply,             \* what fetch produced for the POST
    result,            \* what the executor returned or threw
    twin,              \* a second client's request, for comparing two calls
    batch              \* search-and-enrich: the page and the enrichments so far

vars == <<pc, tool, input, serverWebhookUrl, apiKey, body, posts, reply, result, twin, batch>>

Null == {}
Some(v) == {v}
Val(o) == CHOOSE v \in o : TRUE

\* JavaScript truthiness, per type of the value held.
TruthyStr(o) == o /= Null /\ Val(o) /= ""
TruthyBool(o) == o /= Null /\ Val(o) = TRUE
TruthyNum(o) == o /= Null /\ Val(o) /= 0

\* a || b
OrElse(truthy, a, b) == IF truthy THEN a ELSE b

(***************************************************************************)
(* Sample values of the caller and of the provider.                        *)
(***************************************************************************)
MaxNamePartLen == 100
MaxFullNameLen == 200

\* a string of 201 characters
LongName ==
    "xxxxxxxxxxxxxxxxxxxxxxxxxxxxxxxxxxxxxxxxxxxxxxxxxxxxxxxxxxxxxxxxxxxxxxxxxxxxxxxxxxxxxxxxxxxxxxxxxxxxxxxxxxxxxxxxxxxxxxxxxxxxxxxxxxxxxxxxxxxxxxxxxxxxxxxxxxxxxxxxxxxxxxxxxxxxxxxxxxxxxxxxxxxxxxxxxxxxxxxxx"

\* zod's string().email() and string().url(), on the sample strings.
IsEmail(s) == s \in {"a@b.com", "x@y.com"}
IsUrl(s) == s \in {"https://linkedin.com/in/ann", "https://hooks.example/cb",
                   "https://server.example/webhook"}

EmailVals == {Null, Some("a@b.com"), Some("not-an-email")}
LinkedinVals == {Null, Some("https://linkedin.com/in/ann")}
FirstNameVals == {Null, Some(""), Some("Ann")}
LastNameVals == {Null, Some("Lee")}
NameVals == {Null, Some("Ann Lee"), Some(LongName)}
OrgVals == {Null, Some("Acme")}
DomainVals == {Null, Some("acme.com")}
FlagVals == {Null, Some(FALSE), Some(TRUE)}
FlagValsShort == {Null, Some(TRUE)}
WebhookVals == {Null, Some("https://hooks.example/cb"), Some("not a url")}
ServerWebhookVals == {Null, Some("https://server.example/webhook")}
ApiKeys == {"key-1", "key-2"}
ConfiguredKey == "key-1"

EnrichInputs ==
    [email : EmailVals, linkedin_url : LinkedinVals, first_name : FirstNameVals,
     last_name : LastNameVals, name : NameVals, organization_name : OrgVals,
     domain : DomainVals, reveal_personal_emails : FlagVals,
     reveal_phone_number : FlagValsShort, run_waterfall_email : FlagVals,
     run_waterfall_phone : FlagValsShort, webhook_url : WebhookVals]

(***************************************************************************)
(* enrichPersonInputSchema                                                 *)
(***************************************************************************)
\* The per-field checks of the z.object({...}).
EnrichFieldsWellFormed(data) ==
    /\ data.email /= Null => IsEmail(Val(data.email))
    /\ data.linkedin_url /= Null => IsUrl(Val(data.linkedin_url))
    /\ data.first_name /= Null => Len(Val(data.first_name)) <= MaxNamePartLen
    /\ data.last_name /= Null => Len(Val(data.last_name)) <= MaxNamePartLen
    /\ data.name /= Null => Len(Val(data.name)) <= MaxFullNameLen
    /\ data.organization_name /= Null => Len(Val(data.organization_name)) <= MaxFullNameLen
    /\ data.domain /= Null => Len(Val(data.domain)) <= MaxFullNameLen
    /\ data.webhook_url /= Null => IsUrl(Val(data.webhook_url))

\* Mutant: a full name is taken as an identifier on its own.
HasIdentifierNameAlone(data) ==
    \/ TruthyStr(data.email)
    \/ TruthyStr(data.linkedin_url)
    \/ /\ TruthyStr(data.first_name)
       /\ TruthyStr(data.last_name)
       /\ (TruthyStr(data.organization_name) \/ TruthyStr(data.domain))
    \/ TruthyStr(data.name)

\* First .refine(): at least one identifier must be provided.
HasIdentifier(data) ==
    \/ TruthyStr(data.email)
    \/ TruthyStr(data.linkedin_url)
    \/ /\ TruthyStr(data.first_name)
       /\ TruthyStr(data.last_name)
       /\ (TruthyStr(data.organization_name) \/ TruthyStr(data.domain))
    \/ /\ TruthyStr(data.name)
       /\ (TruthyStr(data.organization_name) \/ TruthyStr(data.domain))

\* Second .refine(): if waterfall is enabled, webhook_url is required.
WaterfallHasWebhook(data) ==
    IF TruthyBool(data.run_waterfall_email) \/ TruthyBool(data.run_waterfall_phone)
    THEN TruthyStr(data.webhook_url)
    ELSE TRUE

\* enrichPersonInputSchema.parse(input) does not throw.
EnrichSchemaAccepts(data) ==
    /\ EnrichFieldsWellFormed(data)
    /\ HasIdentifier(data)
    /\ WaterfallHasWebhook(data)

\* The parsed value: .default(false) on the two reveal flags.
EnrichSchemaParse(data) ==
    [data EXCEPT !.reveal_personal_emails = OrElse(@ /= Null, @, Some(FALSE)),
                 !.reveal_phone_number = OrElse(@ /= Null, @, Some(FALSE))]

(***************************************************************************)
(* executeEnrichPerson, up to the provider call                            *)
(***************************************************************************)
IsAsync(validatedInput) ==
    TruthyBool(validatedInput.run_waterfall_email)
        \/ TruthyBool(validatedInput.run_waterfall_phone)

\* validatedInput.webhook_url || (isAsync ? serverWebhookUrl : undefined)
EffectiveWebhookUrl(validatedInput, serverUrl) ==
    OrElse(TruthyStr(validatedInput.webhook_url), validatedInput.webhook_url,
           IF IsAsync(validatedInput) THEN serverUrl ELSE Null)

\* The argument object of client.enrichPerson({...}).
EnrichParams(validatedInput, serverUrl) ==
    [validatedInput EXCEPT !.webhook_url = EffectiveWebhookUrl(validatedInput, serverUrl)]

(***************************************************************************)
(* ApolloClient.enrichPerson: the request body                             *)
(***************************************************************************)
\* if (params.f) body.f = params.f
CopyIfTruthyStr(o) == IF TruthyStr(o) THEN o ELSE Null
\* if (params.f) body.f = true
TrueIfTruthy(o) == IF TruthyBool(o) THEN Some(TRUE) ELSE Null

\* Mutant: the four flags are copied as given, so false is sent as false.
EnrichBodySendingFalse(params) ==
    [email |-> CopyIfTruthyStr(params.email),
     linkedin_url |-> CopyIfTruthyStr(params.linkedin_url),
     first_name |-> CopyIfTruthyStr(params.first_name),
     last_name |-> CopyIfTruthyStr(params.last_name),
     name |-> CopyIfTruthyStr(params.name),
     organization_name |-> CopyIfTruthyStr(params.organization_name),
     domain |-> CopyIfTruthyStr(params.domain),
     reveal_personal_emails |-> params.reveal_personal_emails,
     reveal_phone_number |-> params.reveal_phone_number,
     run_waterfall_email |-> params.run_waterfall_email,
     run_waterfall_phone |-> params.run_waterfall_phone,
     webhook_url |-> CopyIfTruthyStr(params.webhook_url)]

EnrichBody(params) ==
    [email |-> CopyIfTruthyStr(params.email),
     linkedin_url |-> CopyIfTruthyStr(params.linkedin_url),
     first_name |-> CopyIfTruthyStr(params.first_name),
     last_name |-> CopyIfTruthyStr(params.last_name),
     name |-> CopyIfTruthyStr(params.name),
     organization_name |-> CopyIfTruthyStr(params.organization_name),
     domain |-> CopyIfTruthyStr(params.domain),
     reveal_personal_emails |-> TrueIfTruthy(params.reveal_personal_emails),
     reveal_phone_number |-> TrueIfTruthy(params.reveal_phone_number),
     run_waterfall_email |-> TrueIfTruthy(params.run_waterfall_email),
     run_waterfall_phone |-> TrueIfTruthy(params.run_waterfall_phone),
     webhook_url |-> CopyIfTruthyStr(params.webhook_url)]

(***************************************************************************)
(* Provider persons (raw JSON) and the two normalizers                     *)
(***************************************************************************)
MaxPhones == 4

RECURSIVE SeqsUpTo(_, _)
\* All sequences over S of length at most n.
SeqsUpTo(S, n) ==
    IF n = 0 THEN {<<>>}
    ELSE LET shorter == SeqsUpTo(S, n - 1)
         IN shorter \cup {Append(q, x) : q \in {r \in shorter : Len(r) = n - 1}, x \in S}

SanitizedVals == {"", "+1-555", "+1-999", "+44-20"}
PhoneEntries == [sanitized_number : {Some(v) : v \in SanitizedVals}]
Organizations ==
    [name : {Null, Some("Acme")},
     primary_domain : {Some("acme.com")},
     website_url : {Some("https://acme.com")},
     linkedin_url : {Null},
     industry : {Some("software")},
     estimated_num_employees : {Some(0), Some(50)}]

\* A person as the provider's JSON carries it; the search endpoint's persons
\* are drawn from the same shapes, contact fields included.
RawPersons ==
    [id : {Some("p1")}, name : {Some("Ann Lee")}, first_name : {Some("Ann")},
     last_name : {Some("Lee")}, title : {Some("CEO")}, headline : {Null},
     linkedin_url : {Some("https://linkedin.com/in/ann")},
     email : {Some("ann@acme.com")}, email_status : {Some("verified")},
     personal_emails : {Null, Some(<<"ann@home.example">>)},
     sanitized_phone : {Null} \cup {Some(v) : v \in SanitizedVals \ {"+44-20"}},
     phone_numbers : {Null} \cup {Some(l) : l \in SeqsUpTo(PhoneEntries, MaxPhones)},
     city : {Some("Paris")}, state : {Null}, country : {Some("France")},
     organization_id : {Null, Some("org-1")},
     organization : {Null} \cup {Some(o) : o \in Organizations},
     twitter_url : {Null}, github_url : {Null}, facebook_url : {Null}]

\* Two fixed persons for the provider's replies to the tools.
PersonBare ==
    [id |-> Some("p1"), name |-> Some("Ann Lee"), first_name |-> Some("Ann"),
     last_name |-> Some("Lee"), title |-> Some("CEO"), headline |-> Null,
     linkedin_url |-> Some("https://linkedin.com/in/ann"),
     email |-> Null, email_status |-> Some("verified"),
     personal_emails |-> Null, sanitized_phone |-> Null, phone_numbers |-> Null,
     city |-> Some("Paris"), state |-> Null, country |-> Some("France"),
     organization_id |-> Some("org-1"), organization |-> Null,
     twitter_url |-> Null, github_url |-> Null, facebook_url |-> Null]

PersonWithContacts ==
    [PersonBare EXCEPT
        !.id = Some("p2"),
        !.email = Some("ann@acme.com"),
        !.personal_emails = Some(<<"ann@home.example">>),
        !.sanitized_phone = Some("+1-555"),
        !.phone_numbers = Some(<<[sanitized_number |-> Some("+1-555")],
                                 [sanitized_number |-> Some("+1-999")]>>),
        !.organization = Some([name |-> Some("Acme"), primary_domain |-> Some("acme.com"),
                               website_url |-> Some("https://acme.com"),
                               linkedin_url |-> Null, industry |-> Some("software"),
                               estimated_num_employees |-> Some(50)])]

ReplyPersons == {PersonBare, PersonWithContacts}

\* includes(x) on an array
Includes(list, x) == \E i \in 1..Len(list) : list[i] = x

RECURSIVE PushPhonesNoDedup(_, _)
\* Mutant: the loop without its includes() test.
PushPhonesNoDedup(phoneNumbers, rest) ==
    IF rest = <<>> THEN phoneNumbers
    ELSE LET phone == Head(rest)
         IN IF TruthyStr(phone.sanitized_number)
            THEN PushPhonesNoDedup(Append(phoneNumbers, Val(phone.sanitized_number)),
                                   Tail(rest))
            ELSE PushPhonesNoDedup(phoneNumbers, Tail(rest))

RECURSIVE PushPhones(_, _)
\* The for-of loop over person.phone_numbers, phoneNumbers being the array
\* built so far.
PushPhones(phoneNumbers, rest) ==
    IF rest = <<>> THEN phoneNumbers
    ELSE LET phone == Head(rest)
         IN IF TruthyStr(phone.sanitized_number)
                /\ ~Includes(phoneNumbers, Val(phone.sanitized_number))
            THEN PushPhones(Append(phoneNumbers, Val(phone.sanitized_number)), Tail(rest))
            ELSE PushPhones(phoneNumbers, Tail(rest))

\* const phoneNumbers of normalizeEnrichedPerson
EnrichedPhoneNumbers(person) ==
    LET first == IF TruthyStr(person.sanitized_phone)
                 THEN <<Val(person.sanitized_phone)>> ELSE <<>>
    IN IF person.phone_numbers /= Null
       THEN PushPhones(first, Val(person.phone_numbers))
       ELSE first

\* Mutant: the company's profile URL falls back to the person's own.
OrgStrFallingBackToPerson(person, f) ==
    IF person.organization /= Null /\ TruthyStr(Val(person.organization)[f])
    THEN Val(person.organization)[f]
    ELSE IF f = "linkedin_url" THEN person.linkedin_url ELSE Null

\* person.organization?.f || null, f a string field
OrgStr(person, f) ==
    IF person.organization /= Null /\ TruthyStr(Val(person.organization)[f])
    THEN Val(person.organization)[f] ELSE Null

\* person.organization?.f || null, f a number field
OrgNum(person, f) ==
    IF person.organization /= Null /\ TruthyNum(Val(person.organization)[f])
    THEN Val(person.organization)[f] ELSE Null

\* The company: {...} literal, the same in both normalizers.
Company(person) ==
    [id |-> person.organization_id,
     name |-> OrgStr(person, "name"),
     domain |-> OrgStr(person, "primary_domain"),
     website |-> OrgStr(person, "website_url"),
     linkedin_url |-> OrgStr(person, "linkedin_url"),
     industry |-> OrgStr(person, "industry"),
     employee_count |-> OrgNum(person, "estimated_num_employees")]

Location(person) ==
    [city |-> person.city, state |-> person.state, country |-> person.country]

Social(person) ==
    [twitter_url |-> person.twitter_url, github_url |-> person.github_url,
     facebook_url |-> person.facebook_url]

\* Mutant: the search normalizer passes the provider's email through.
NormalizeSearchPersonKeepingEmail(person) ==
    [apollo_id |-> person.id, name |-> person.name,
     first_name |-> person.first_name, last_name |-> person.last_name,
     title |-> person.title, headline |-> person.headline,
     linkedin_url |-> person.linkedin_url,
     email |-> person.email,
     email_status |-> person.email_status,
     personal_emails |-> <<>>,
     phone_numbers |-> <<>>,
     location |-> Some(Location(person)),
     company |-> Some(Company(person)),
     social |-> Some(Social(person))]

NormalizeSearchPerson(person) ==
    [apollo_id |-> person.id, name |-> person.name,
     first_name |-> person.first_name, last_name |-> person.last_name,
     title |-> person.title, headline |-> person.headline,
     linkedin_url |-> person.linkedin_url,
     email |-> Null,
     email_status |-> person.email_status,
     personal_emails |-> <<>>,
     phone_numbers |-> <<>>,
     location |-> Some(Location(person)),
     company |-> Some(Company(person)),
     social |-> Some(Social(person))]

NormalizeEnrichedPerson(person) ==
    [apollo_id |-> person.id, name |-> person.name,
     first_name |-> person.first_name, last_name |-> person.last_name,
     title |-> person.title, headline |-> person.headline,
     linkedin_url |-> person.linkedin_url,
     email |-> person.email,
     email_status |-> person.email_status,
     personal_emails |-> IF person.personal_emails /= Null
                         THEN Val(person.personal_emails) ELSE <<>>,
     phone_numbers |-> EnrichedPhoneNumbers(person),
     location |-> Some(Location(person)),
     company |-> Some(Company(person)),
     social |-> Some(Social(person))]

(***************************************************************************)
(* searchPeopleInputSchema and ApolloClient.searchPeople                   *)
(***************************************************************************)
MaxTitles == 50
MaxLocations == 50
MaxKeywordsLen == 500
MinPage == 1
MaxPage == 100
MinPerPage == 1
MaxPerPage == 100
DefaultPage == 1
DefaultPerPage == 25
ApolloMaxPerPage == 100

\* MaxTitles + 1 job titles
TooManyTitles == [i \in 1..(MaxTitles + 1) |-> "CEO"]

SearchInputs ==
    [person_titles : {Null, Some(<<>>), Some(<<"CEO">>), Some(<<"CEO", "CTO">>),
                      Some(TooManyTitles)},
     person_locations : {Null, Some(<<>>), Some(<<"Paris">>)},
     q_keywords : {Null, Some(""), Some("saas")},
     page : {Null, Some(0), Some(1), Some(2), Some(MaxPage + 1)},
     per_page : {Null, Some(1), Some(DefaultPerPage), Some(MaxPerPage),
                 Some(MaxPerPage + 1)}]

\* searchPeopleInputSchema.parse(input) does not throw.
SearchSchemaAccepts(data) ==
    /\ data.person_titles /= Null
    /\ Len(Val(data.person_titles)) >= 1
    /\ Len(Val(data.person_titles)) <= MaxTitles
    /\ data.person_locations /= Null => Len(Val(data.person_locations)) <= MaxLocations
    /\ data.q_keywords /= Null => Len(Val(data.q_keywords)) <= MaxKeywordsLen
    /\ data.page /= Null => Val(data.page) >= MinPage /\ Val(data.page) <= MaxPage
    /\ data.per_page /= Null =>
          Val(data.per_page) >= MinPerPage /\ Val(data.per_page) <= MaxPerPage

\* The parsed value: .default(1) on page and .default(25) on per_page.
SearchSchemaParse(data) ==
    [data EXCEPT !.page = OrElse(@ /= Null, @, Some(DefaultPage)),
                 !.per_page = OrElse(@ /= Null, @, Some(DefaultPerPage))]

Min(a, b) == IF a <= b THEN a ELSE b

\* The request body of ApolloClient.searchPeople.
SearchBody(params) ==
    [page |-> OrElse(TruthyNum(params.page), params.page, Some(DefaultPage)),
     per_page |-> Some(Min(Val(OrElse(TruthyNum(params.per_page), params.per_page,
                                      Some(DefaultPerPage))),
                           ApolloMaxPerPage)),
     person_titles |-> IF params.person_titles /= Null /\ Len(Val(params.person_titles)) > 0
                       THEN params.person_titles ELSE Null,
     person_locations |-> IF params.person_locations /= Null
                              /\ Len(Val(params.person_locations)) > 0
                          THEN params.person_locations ELSE Null,
     q_keywords |-> CopyIfTruthyStr(params.q_keywords)]

\* response.pagination?.f
PaginationField(json, f) ==
    IF json.pagination /= Null THEN Val(json.pagination)[f] ELSE Null

\* a || b || c on numbers, c a number
FirstTruthyNum(a, b, c) ==
    IF TruthyNum(a) THEN Val(a) ELSE IF TruthyNum(b) THEN Val(b) ELSE c

\* Mutant: the fallback skips the request's own values.
SearchPaginationIgnoringRequest(params, json) ==
    [page |-> FirstTruthyNum(PaginationField(json, "page"), Null, DefaultPage),
     per_page |-> FirstTruthyNum(PaginationField(json, "per_page"), Null, DefaultPerPage),
     total_entries |-> FirstTruthyNum(PaginationField(json, "total_entries"), Null, 0),
     total_pages |-> FirstTruthyNum(PaginationField(json, "total_pages"), Null, 0)]

\* The pagination: {...} literal ApolloClient.searchPeople returns.
SearchPagination(params, json) ==
    [page |-> FirstTruthyNum(PaginationField(json, "page"), params.page, DefaultPage),
     per_page |-> FirstTruthyNum(PaginationField(json, "per_page"), params.per_page,
                                 DefaultPerPage),
     total_entries |-> FirstTruthyNum(PaginationField(json, "total_entries"), Null, 0),
     total_pages |-> FirstTruthyNum(PaginationField(json, "total_pages"), Null, 0)]

\* What ApolloClient.searchPeople returns for the provider's JSON.
SearchResponse(params, json) ==
    [people |-> IF json.people /= Null THEN Val(json.people) ELSE <<>>,
     pagination |-> SearchPagination(params, json)]

\* response.people.map(ApolloClient.normalizeSearchPerson)
MapNormalizeSearch(people) ==
    [i \in 1..Len(people) |-> NormalizeSearchPerson(people[i])]

\* The value executeSearchPeople returns.
SearchResult(validatedInput, json) ==
    LET response == SearchResponse(validatedInput, json)
    IN [people |-> MapNormalizeSearch(response.people),
        pagination |-> response.pagination]

(***************************************************************************)
(* ApolloClient.enrichPerson's return value and executeEnrichPerson's      *)
(***************************************************************************)
EnrichResponse(json) ==
    [person |-> json.person,
     status |-> OrElse(TruthyStr(json.status), json.status, Some("unknown")),
     enrichment_request_id |-> json.enrichment_request_id,
     enrichment_status |-> json.enrichment_status,
     credits_used |-> json.credits_used]

\* Mutant: the callback URL is echoed whenever there is one.
EchoedWebhookUrlAlways(validatedInput, serverUrl) ==
    EffectiveWebhookUrl(validatedInput, serverUrl)

\* webhook_url: isAsync ? webhookUrl : undefined
EchoedWebhookUrl(validatedInput, serverUrl) ==
    IF IsAsync(validatedInput) THEN EffectiveWebhookUrl(validatedInput, serverUrl) ELSE Null

\* The value executeEnrichPerson returns.
EnrichmentResult(validatedInput, serverUrl, json) ==
    LET response == EnrichResponse(json)
    IN [person |-> IF response.person /= Null
                   THEN Some(NormalizeEnrichedPerson(Val(response.person))) ELSE Null,
        status |-> response.status,
        enrichment_request_id |-> response.enrichment_request_id,
        enrichment_status |-> response.enrichment_status,
        is_async |-> IsAsync(validatedInput),
        webhook_url |-> EchoedWebhookUrl(validatedInput, serverUrl)]

(***************************************************************************)
(* The provider's replies                                                  *)
(***************************************************************************)
MaxPeople == 2

\* No search-and-enrich invocation is running.
NoBatch ==
    [people |-> <<>>,
     pagination |-> [page |-> 0, per_page |-> 0, total_entries |-> 0, total_pages |-> 0],
     issued |-> 0,
     done |-> <<>>]

NoReply == [kind |-> "none", status |-> 0, statusText |-> "", json |-> Null]

EnrichJsons ==
    [person : {Null} \cup {Some(p) : p \in ReplyPersons},
     status : {Null, Some("success")},
     enrichment_request_id : {Null, Some("job-1")},
     enrichment_status : {Null},
     credits_used : {Some(1)}]

SearchJsons ==
    [people : {Null} \cup {Some(l) : l \in SeqsUpTo(ReplyPersons, MaxPeople)},
     pagination : {Null} \cup
        {Some(p) : p \in [page : {Null, Some(0), Some(3)},
                          per_page : {Null, Some(0), Some(10)},
                          total_entries : {Null, Some(7)},
                          total_pages : {Null, Some(2)}]}]

OkReplies(jsons) ==
    {[kind |-> "ok", status |-> 200, statusText |-> "OK", json |-> Some(j)] : j \in jsons}

\* Non-2xx answers: response.ok is false.
HttpErrorReplies ==
    {[kind |-> "http-error", status |-> st[1], statusText |-> st[2], json |-> Null] :
        st \in {<<401, "Unauthorized">>, <<500, "Internal Server Error">>, <<500, "">>}}

OtherFailures ==
    {[kind |-> "network", status |-> 0, statusText |-> "", json |-> Null],
     [kind |-> "unparsable", status |-> 200, statusText |-> "OK", json |-> Null]}

(***************************************************************************)
(* ApolloClient.makeRequest                                                *)
(***************************************************************************)
\* Mutant: the message names the key the request was sent with.
ProviderErrorLeakingKey(key, sentBody, status, statusText) ==
    [kind |-> "Error",
     message |-> "Apollo API error: " \o ToString(status) \o " " \o statusText
                 \o " (key " \o key \o ")"]

\* new Error(`Apollo API error: ${response.status} ${response.statusText}`)
ProviderError(key, sentBody, status, statusText) ==
    [kind |-> "Error",
     message |-> "Apollo API error: " \o ToString(status) \o " " \o statusText]

\* What enrichPersonInputSchema.parse / searchPeopleInputSchema.parse throws.
ValidationError == [kind |-> "ZodError", message |-> "validation failed"]

\* fetch() itself rejected: the rejection passes through makeRequest unchanged.
TransportError == [kind |-> "TypeError", message |-> "fetch failed"]

\* response.json() rejected on a 2xx answer whose body is not JSON.
JsonError == [kind |-> "SyntaxError", message |-> "Unexpected token"]

\* Mutant: a failed POST is sent once more before the error is raised.
MakeRequestRetrying(key, sentBody, rep, n) ==
    CASE rep.kind = "http-error" /\ n < 2 ->
            [next |-> "awaiting", posts |-> n + 1, error |-> Null]
      [] rep.kind = "http-error" /\ n >= 2 ->
            [next |-> "threw", posts |-> n,
             error |-> ProviderError(key, sentBody, rep.status, rep.statusText)]
      [] rep.kind = "network" -> [next |-> "threw", posts |-> n, error |-> TransportError]
      [] rep.kind = "unparsable" -> [next |-> "threw", posts |-> n, error |-> JsonError]
      [] OTHER -> [next |-> "returned", posts |-> n, error |-> Null]

\* makeRequest after its fetch settled with rep, n POSTs having been made:
\* where the caller goes next, and with what.
MakeRequest(key, sentBody, rep, n) ==
    CASE rep.kind = "http-error" ->
            [next |-> "threw", posts |-> n,
             error |-> ProviderError(key, sentBody, rep.status, rep.statusText)]
      [] rep.kind = "network" -> [next |-> "threw", posts |-> n, error |-> TransportError]
      [] rep.kind = "unparsable" -> [next |-> "threw", posts |-> n, error |-> JsonError]
      [] OTHER -> [next |-> "returned", posts |-> n, error |-> Null]

(***************************************************************************)
(* The tool invocations                                                    *)
(***************************************************************************)
Init ==
    /\ pc = "idle"
    /\ tool = "none"
    /\ input = Null
    /\ serverWebhookUrl = Null
    /\ apiKey = ConfiguredKey
    /\ body = Null
    /\ posts = 0
    /\ reply = NoReply
    /\ result = Null
    /\ twin = Null
    /\ batch = NoBatch

\* Mutant: the client is called before the input is parsed.
PostsWhenClientCalledFirst(accepted, n) == n + 1

\* The executors parse the input before they call the client: a throwing
\* parse leaves the n POSTs made so far as they are, otherwise one is made.
PostsAfterCall(accepted, n) == IF accepted THEN n + 1 ELSE n

\* executeEnrichPerson(client, input, serverWebhookUrl) up to its await:
\* parse throws, or the client builds the body and POSTs it.
EnrichCall ==
    /\ pc = "idle"
    /\ \E in \in EnrichInputs, server \in ServerWebhookVals :
        /\ tool' = "enrich"
        /\ input' = in
        /\ serverWebhookUrl' = server
        /\ posts' = PostsAfterCall(EnrichSchemaAccepts(in), posts)
        /\ IF EnrichSchemaAccepts(in)
           THEN /\ body' = EnrichBody(EnrichParams(EnrichSchemaParse(in), server))
                /\ pc' = "awaiting"
                /\ result' = Null
           ELSE /\ pc' = "threw"
                /\ result' = ValidationError
                /\ UNCHANGED body
    /\ UNCHANGED <<apiKey, reply, twin, batch>>

\* executeSearchPeople(client, input) up to its await.
SearchCall ==
    /\ pc = "idle"
    /\ \E in \in SearchInputs :
        /\ tool' = "search"
        /\ input' = in
        /\ posts' = PostsAfterCall(SearchSchemaAccepts(in), posts)
        /\ IF SearchSchemaAccepts(in)
           THEN /\ body' = SearchBody(SearchSchemaParse(in))
                /\ pc' = "awaiting"
                /\ result' = Null
           ELSE /\ pc' = "threw"
                /\ result' = ValidationError
                /\ UNCHANGED body
    /\ UNCHANGED <<apiKey, reply, serverWebhookUrl, twin, batch>>

\* The value executeEnrichPerson resolves to once the provider answered rep.
EnrichValue(rep) ==
    IF rep.json = Null THEN Null
    ELSE [kind |-> "EnrichmentResult",
          value |-> EnrichmentResult(EnrichSchemaParse(input), serverWebhookUrl,
                                     Val(rep.json))]

\* The value executeSearchPeople resolves to once the provider answered rep.
SearchValue(rep) ==
    IF rep.json = Null THEN Null
    ELSE [kind |-> "SearchResult",
          value |-> SearchResult(SearchSchemaParse(input), Val(rep.json))]

\* The POST settles with rep: makeRequest, the client method and the
\* executor run on to the value, or the error propagates to the caller.
Settle(rep, value) ==
    LET out == MakeRequest(apiKey, body, rep, posts)
    IN /\ reply' = rep
       /\ pc' = out.next
       /\ posts' = out.posts
       /\ result' = IF out.next = "threw" THEN out.error
                    ELSE IF out.next = "returned" THEN value
                    ELSE Null
       /\ UNCHANGED <<tool, input, serverWebhookUrl, apiKey, body, twin, batch>>

EnrichReply ==
    /\ tool = "enrich"
    /\ pc = "awaiting"
    /\ \E rep \in OkReplies(EnrichJsons) \cup HttpErrorReplies \cup OtherFailures :
        Settle(rep, EnrichValue(rep))

SearchReply ==
    /\ tool = "search"
    /\ pc = "awaiting"
    /\ \E rep \in OkReplies(SearchJsons) \cup HttpErrorReplies \cup OtherFailures :
        Settle(rep, SearchValue(rep))

\* The next tool invocation starts from a fresh call frame.
Return ==
    /\ pc \in {"returned", "threw"}
    /\ pc' = "idle"
    /\ tool' = "none"
    /\ input' = Null
    /\ serverWebhookUrl' = Null
    /\ body' = Null
    /\ posts' = 0
    /\ reply' = NoReply
    /\ result' = Null
    /\ UNCHANGED <<apiKey, twin, batch>>

Next == EnrichCall \/ SearchCall \/ EnrichReply \/ SearchReply \/ Return

Spec == Init /\ [][Next]_vars

(***************************************************************************)
(* The two normalizers on their own, over every provider person            *)
(***************************************************************************)
InitNorm ==
    /\ pc = "raw"
    /\ tool = "normalize"
    /\ input \in RawPersons
    /\ serverWebhookUrl = Null
    /\ apiKey = ConfiguredKey
    /\ body = Null
    /\ posts = 0
    /\ reply = NoReply
    /\ result = Null
    /\ twin = Null
    /\ batch = NoBatch

\* ApolloClient.normalizeEnrichedPerson(person)
NormalizeEnriched ==
    /\ pc = "raw"
    /\ pc' = "enriched"
    /\ result' = NormalizeEnrichedPerson(input)
    /\ UNCHANGED <<tool, input, serverWebhookUrl, apiKey, body, posts, reply, twin, batch>>

\* ApolloClient.normalizeSearchPerson(person)
NormalizeSearch ==
    /\ pc = "raw"
    /\ pc' = "searched"
    /\ result' = NormalizeSearchPerson(input)
    /\ UNCHANGED <<tool, input, serverWebhookUrl, apiKey, body, posts, reply, twin, batch>>

NextNorm == NormalizeEnriched \/ NormalizeSearch

SpecNorm == InitNorm /\ [][NextNorm]_vars

(***************************************************************************)
(* Two clients, each with one request in flight                            *)
(***************************************************************************)
\* Request bodies the enrich tool sends for inputs that name an email.
PairBodies ==
    {EnrichBody(EnrichParams(EnrichSchemaParse(in), Null)) :
        in \in {d \in EnrichInputs :
                    /\ EnrichSchemaAccepts(d)
                    /\ d.email /= Null /\ d.linkedin_url = Null /\ d.first_name = Null
                    /\ d.last_name = Null /\ d.name = Null /\ d.organization_name = Null
                    /\ d.run_waterfall_email = Null /\ d.run_waterfall_phone = Null
                    /\ d.reveal_personal_emails = Null /\ d.webhook_url = Null}}

InitPair ==
    /\ pc = "awaiting"
    /\ tool = "enrich"
    /\ input = Null
    /\ serverWebhookUrl = Null
    /\ apiKey \in ApiKeys
    /\ body \in PairBodies
    /\ posts = 1
    /\ reply = NoReply
    /\ result = Null
    /\ twin \in [pc : {"awaiting"}, apiKey : ApiKeys, body : PairBodies, posts : {1},
                 reply : {NoReply}, result : {Null}]
    /\ batch = NoBatch

PairReplies == OkReplies(EnrichJsons) \cup HttpErrorReplies \cup OtherFailures

\* The first client's POST settles; the caller gets makeRequest's JSON.
FirstSettles ==
    /\ pc = "awaiting"
    /\ \E rep \in PairReplies : Settle(rep, rep.json)

\* The second client's POST settles.
TwinSettles ==
    /\ twin.pc = "awaiting"
    /\ \E rep \in PairReplies :
        LET out == MakeRequest(twin.apiKey, twin.body, rep, twin.posts)
        IN twin' = [twin EXCEPT !.reply = rep, !.pc = out.next, !.posts = out.posts,
                                !.result = IF out.next = "threw" THEN out.error
                                           ELSE IF out.next = "returned" THEN rep.json
                                           ELSE Null]
    /\ UNCHANGED <<pc, tool, input, serverWebhookUrl, apiKey, body, posts, reply, result,
                   batch>>

NextPair == FirstSettles \/ TwinSettles

SpecPair == InitPair /\ [][NextPair]_vars

(***************************************************************************)
(* The search-and-enrich executor: one search, then one enrichment per     *)
(* person of the page, the enrichments running concurrently                *)
(***************************************************************************)
MaxBatch == 3

\* The i-th person of a provider page: one with a name and a company, or one
\* the provider gives no name for.
PagePerson(i, named) ==
    IF named
    THEN [PersonWithContacts EXCEPT !.id = Some("p" \o ToString(i))]
    ELSE [PersonBare EXCEPT !.id = Some("p" \o ToString(i)), !.name = Null,
                            !.first_name = Null, !.last_name = Null]

Pages ==
    UNION {{[i \in 1..n |-> PagePerson(i, named[i])] : named \in [1..n -> BOOLEAN]} :
                n \in 0..MaxBatch}

BatchSearchJsons ==
    [people : {Some(page) : page \in Pages},
     pagination : {Some([page |-> Some(3), per_page |-> Some(10),
                         total_entries |-> Some(7), total_pages |-> Some(2)])}]

\* What the provider may answer when asked to enrich the i-th person: the
\* person, no match, a non-2xx status, or nothing at all.
BatchEnrichReplies(i) ==
    OkReplies({[person |-> Some(PagePerson(i, TRUE)), status |-> Some("success"),
                enrichment_request_id |-> Null, enrichment_status |-> Null,
                credits_used |-> Some(1)],
               [person |-> Null, status |-> Null,
                enrichment_request_id |-> Null, enrichment_status |-> Null,
                credits_used |-> Some(1)]})
        \cup {r \in HttpErrorReplies : r.status = 500 /\ r.statusText /= ""}
        \cup {r \in OtherFailures : r.kind = "network"}

\* The caller's input: the search fields and the enrichment flags.
BatchInputs ==
    [search : {s \in SearchInputs :
                    /\ s.person_titles \in {Some(<<"CEO">>), Some(TooManyTitles)}
                    /\ s.person_locations = Null /\ s.q_keywords = Null
                    /\ s.page = Null /\ s.per_page = Null},
     reveal_personal_emails : {Null},
     reveal_phone_number : {Null},
     run_waterfall_email : FlagValsShort,
     run_waterfall_phone : {Null},
     webhook_url : {Null, Some("https://hooks.example/cb")}]

\* The enrichment query for one person of the page: the name and the
\* company's name and domain, with the caller's enrichment flags.
DerivedQuery(person, in) ==
    [email |-> Null,
     linkedin_url |-> Null,
     first_name |-> person.first_name,
     last_name |-> person.last_name,
     name |-> person.name,
     organization_name |-> Val(person.company).name,
     domain |-> Val(person.company).domain,
     reveal_personal_emails |-> in.reveal_personal_emails,
     reveal_phone_number |-> in.reveal_phone_number,
     run_waterfall_email |-> in.run_waterfall_email,
     run_waterfall_phone |-> in.run_waterfall_phone,
     webhook_url |-> in.webhook_url]

\* What a failed enrichment degrades to: no person, the failure as status.
FailedOutcome(error) ==
    [person |-> Null,
     status |-> Some(error.message),
     enrichment_request_id |-> Null,
     enrichment_status |-> Null,
     is_async |-> FALSE,
     webhook_url |-> Null]

\* The outcome of one enrichment whose POST settled with rep.
SettledOutcome(query, serverUrl, rep, out) ==
    IF out.next = "threw" THEN FailedOutcome(out.error)
    ELSE EnrichmentResult(EnrichSchemaParse(query), serverUrl, Val(rep.json))

\* Mutant: the outcomes are listed as the enrichments completed.
OutcomesInCompletionOrder(people, done) ==
    [k \in 1..Len(done) |-> done[k].outcome]

\* The outcomes, one per person, in the order of the search page.
OutcomesInSearchOrder(people, done) ==
    [i \in 1..Len(people) |->
        (CHOOSE d \in {done[k] : k \in 1..Len(done)} : d.index = i).outcome]

Successful(outcome) == outcome.person /= Null /\ ~outcome.is_async
Failed(outcome) == outcome.person = Null /\ ~outcome.is_async
AsyncPending(outcome) == outcome.is_async

\* enrichment_summary
EnrichmentSummary(people, outcomes) ==
    [attempted |-> Len(people),
     successful |-> Cardinality({i \in DOMAIN outcomes : Successful(outcomes[i])}),
     failed |-> Cardinality({i \in DOMAIN outcomes : Failed(outcomes[i])}),
     async_pending |-> Cardinality({i \in DOMAIN outcomes : AsyncPending(outcomes[i])})]

\* The SearchAndEnrichResult the executor returns.
SearchAndEnrichResult(b) ==
    LET outcomes == OutcomesInSearchOrder(b.people, b.done)
    IN [search_results |-> [total_found |-> b.pagination.total_entries,
                            page |-> b.pagination.page,
                            per_page |-> b.pagination.per_page],
        enriched_people |-> outcomes,
        enrichment_summary |-> EnrichmentSummary(b.people, outcomes)]

\* The enrichments issued and not yet completed.
InFlight ==
    {i \in 1..batch.issued : \A k \in 1..Len(batch.done) : batch.done[k].index /= i}

\* The executor is called: it runs the search executor first.
BatchCall ==
    /\ pc = "idle"
    /\ \E in \in BatchInputs, server \in ServerWebhookVals :
        /\ tool' = "search_and_enrich"
        /\ input' = in
        /\ serverWebhookUrl' = server
        /\ posts' = PostsAfterCall(SearchSchemaAccepts(in.search), posts)
        /\ IF SearchSchemaAccepts(in.search)
           THEN /\ body' = SearchBody(SearchSchemaParse(in.search))
                /\ pc' = "searching"
                /\ result' = Null
           ELSE /\ pc' = "threw"
                /\ result' = ValidationError
                /\ UNCHANGED body
    /\ UNCHANGED <<apiKey, reply, twin, batch>>

\* The search settles: its error propagates, or its page starts the batch.
BatchSearchReply ==
    /\ tool = "search_and_enrich"
    /\ pc = "searching"
    /\ \E rep \in OkReplies(BatchSearchJsons) \cup HttpErrorReplies :
        LET out == MakeRequest(apiKey, body, rep, posts)
            found == SearchResult(SearchSchemaParse(input.search), Val(rep.json))
        IN /\ reply' = rep
           /\ posts' = out.posts
           /\ IF out.next = "threw"
              THEN /\ pc' = "threw"
                   /\ result' = out.error
                   /\ UNCHANGED batch
              ELSE /\ pc' = "enriching"
                   /\ result' = Null
                   /\ batch' = [people |-> found.people, pagination |-> found.pagination,
                                issued |-> 0, done |-> <<>>]
    /\ UNCHANGED <<tool, input, serverWebhookUrl, apiKey, body, twin>>

\* The enrich executor is started for the next person of the page: a query
\* the schema rejects fails at once, any other is POSTed.
BatchIssue ==
    /\ tool = "search_and_enrich"
    /\ pc = "enriching"
    /\ batch.issued < Len(batch.people)
    /\ LET i == batch.issued + 1
           query == DerivedQuery(batch.people[i], input)
       IN /\ posts' = PostsAfterCall(EnrichSchemaAccepts(query), posts)
          /\ IF EnrichSchemaAccepts(query)
             THEN /\ body' = EnrichBody(EnrichParams(EnrichSchemaParse(query),
                                                     serverWebhookUrl))
                  /\ batch' = [batch EXCEPT !.issued = i]
             ELSE /\ batch' = [batch EXCEPT
                                !.issued = i,
                                !.done = Append(@, [index |-> i,
                                                    error |-> Some(ValidationError),
                                                    outcome |-> FailedOutcome(ValidationError)])]
                  /\ UNCHANGED body
    /\ UNCHANGED <<pc, tool, input, serverWebhookUrl, apiKey, reply, result, twin>>

\* One of the enrichments in flight completes, whichever the provider
\* answers first: its result or its error becomes that person's outcome.
BatchSettle ==
    /\ tool = "search_and_enrich"
    /\ pc = "enriching"
    /\ \E i \in InFlight :
        \E rep \in BatchEnrichReplies(i) :
            LET query == DerivedQuery(batch.people[i], input)
                sent == EnrichBody(EnrichParams(EnrichSchemaParse(query), serverWebhookUrl))
                out == MakeRequest(apiKey, sent, rep, posts)
            IN /\ reply' = rep
               /\ posts' = out.posts
               /\ batch' = [batch EXCEPT
                             !.done = Append(@,
                                [index |-> i,
                                 error |-> IF out.next = "threw" THEN Some(out.error)
                                           ELSE Null,
                                 outcome |-> SettledOutcome(query, serverWebhookUrl,
                                                            rep, out)])]
    /\ UNCHANGED <<pc, tool, input, serverWebhookUrl, apiKey, body, result, twin>>

\* Every enrichment has completed: the executor returns.
BatchFinish ==
    /\ tool = "search_and_enrich"
    /\ pc = "enriching"
    /\ batch.issued = Len(batch.people)
    /\ Len(batch.done) = Len(batch.people)
    /\ pc' = "returned"
    /\ result' = [kind |-> "SearchAndEnrichResult", value |-> SearchAndEnrichResult(batch)]
    /\ UNCHANGED <<tool, input, serverWebhookUrl, apiKey, body, posts, reply, twin, batch>>

NextBatch == BatchCall \/ BatchSearchReply \/ BatchIssue \/ BatchSettle \/ BatchFinish

SpecBatch == Init /\ [][NextBatch]_vars

(***************************************************************************)
(* Properties                                                              *)
(***************************************************************************)
\* An enrich invocation that has got past its first step.
EnrichStarted == tool = "enrich" /\ pc \in {"awaiting", "returned", "threw"}

\* The invocation ended in the schema's validation error.
Rejected == pc = "threw" /\ result.kind = "ZodError"

IdentifierFields ==
    {"email", "linkedin_url", "first_name", "last_name", "name", "organization_name",
     "domain"}
FlagFields ==
    {"reveal_personal_emails", "reveal_phone_number", "run_waterfall_email",
     "run_waterfall_phone"}

WaterfallRequested ==
    input.run_waterfall_email = Some(TRUE) \/ input.run_waterfall_phone = Some(TRUE)

\* C1's case: a valid identifier, a waterfall flag set to true, no webhook_url.
WaterfallWithoutWebhook ==
    /\ EnrichStarted
    /\ EnrichFieldsWellFormed(input)
    /\ input.email /= Null \/ input.linkedin_url /= Null
    /\ WaterfallRequested
    /\ input.webhook_url = Null

\* C1: an enrich input with a valid identifier, a waterfall flag set and no
\* webhook_url is rejected with a validation error when no server default
\* callback URL is passed, and is accepted, the provider being called with
\* the server default as the callback URL, when one is passed.
C1_ServerDefaultDecides ==
    WaterfallWithoutWebhook =>
        IF serverWebhookUrl = Null
        THEN Rejected /\ posts = 0
        ELSE ~Rejected /\ posts = 1 /\ body.webhook_url = serverWebhookUrl

\* Some combination of identifier fields was supplied, whatever the values.
CombinationSupplied(data) ==
    \/ data.email /= Null
    \/ data.linkedin_url /= Null
    \/ /\ data.first_name /= Null
       /\ data.last_name /= Null
       /\ (data.organization_name /= Null \/ data.domain /= Null)
    \/ /\ data.name /= Null
       /\ (data.organization_name /= Null \/ data.domain /= Null)

NonEmpty(o) == o /= Null /\ o /= Some("")

\* Some combination of identifier fields was supplied with non-empty values.
CombinationNonEmpty(data) ==
    \/ NonEmpty(data.email)
    \/ NonEmpty(data.linkedin_url)
    \/ /\ NonEmpty(data.first_name)
       /\ NonEmpty(data.last_name)
       /\ (NonEmpty(data.organization_name) \/ NonEmpty(data.domain))
    \/ /\ NonEmpty(data.name)
       /\ (NonEmpty(data.organization_name) \/ NonEmpty(data.domain))

\* C2's case: no waterfall flag set and every field well-formed.
PlainWellFormed ==
    /\ EnrichStarted
    /\ EnrichFieldsWellFormed(input)
    /\ ~WaterfallRequested

NoFieldSupplied(data) ==
    \A f \in IdentifierFields \cup FlagFields \cup {"webhook_url"} : data[f] = Null

\* C2 as stated: a well-formed input without waterfall flag is accepted if
\* and only if one of the identifier combinations is present in it.
C2_AcceptedIffCombinationSupplied ==
    PlainWellFormed => (~Rejected <=> CombinationSupplied(input))

\* C2 as amended: a well-formed input without waterfall flag is accepted if
\* and only if one of the identifier combinations is present with non-empty
\* values: an empty string does not count as an identifier.  {} is rejected,
\* an input with an email is accepted, and a name without organization_name
\* or domain is rejected.
C2_AcceptedIffCombinationNonEmpty ==
    /\ PlainWellFormed => (~Rejected <=> CombinationNonEmpty(input))
    /\ EnrichStarted /\ NoFieldSupplied(input) => Rejected
    /\ PlainWellFormed /\ input.email /= Null => ~Rejected /\ posts = 1
    /\ (/\ PlainWellFormed
        /\ input.name /= Null
        /\ input.email = Null /\ input.linkedin_url = Null
        /\ input.organization_name = Null /\ input.domain = Null) => Rejected

\* An input accepted through the (name, domain) combination alone.
C2_Witness ==
    /\ PlainWellFormed
    /\ pc = "awaiting"
    /\ input.email = Null /\ input.linkedin_url = Null
    /\ input.first_name = Some("") /\ input.last_name = Null
    /\ input.name /= Null /\ input.organization_name = Null /\ input.domain /= Null

\* C3: every outcome executeEnrichPerson returns has is_async true exactly
\* when run_waterfall_email or run_waterfall_phone was true in the input, and
\* carries a webhook_url only when is_async is true; a synchronous call's
\* outcome has none even if the caller supplied one.
C3_WebhookEchoedOnlyWhenAsync ==
    tool = "enrich" /\ pc = "returned" =>
        /\ result.value.is_async = WaterfallRequested
        /\ result.value.webhook_url /= Null => result.value.is_async
        /\ ~WaterfallRequested => result.value.webhook_url = Null

\* A synchronous call that supplied a webhook_url and got an outcome without.
C3_Witness ==
    /\ tool = "enrich" /\ pc = "returned"
    /\ ~WaterfallRequested
    /\ input.webhook_url /= Null
    /\ result.value.webhook_url = Null
    /\ result.value.is_async = FALSE

\* A search invocation that returned; the provider's JSON and what was asked.
SearchReturned == tool = "search" /\ pc = "returned"
ProviderJson == Val(reply.json)
RequestPage == IF input.page = Null THEN DefaultPage ELSE Val(input.page)
RequestPerPage == IF input.per_page = Null THEN DefaultPerPage ELSE Val(input.per_page)

\* The provider supplied pagination field f / supplied it with a non-zero value.
Supplied(f) == PaginationField(ProviderJson, f) /= Null
SuppliedNonZero(f) == Supplied(f) /\ PaginationField(ProviderJson, f) /= Some(0)
Upstream(f) == Val(PaginationField(ProviderJson, f))

\* C4 as stated: page and per_page of the output pagination are the upstream
\* values when the provider supplied them and the request's own otherwise;
\* total_entries and total_pages are the upstream values or 0; a 2xx answer
\* without pagination metadata does not make the search fail.
C4_PaginationUpstreamWhenSupplied ==
    /\ SearchReturned =>
        /\ result.value.pagination.page =
              IF Supplied("page") THEN Upstream("page") ELSE RequestPage
        /\ result.value.pagination.per_page =
              IF Supplied("per_page") THEN Upstream("per_page") ELSE RequestPerPage
        /\ result.value.pagination.total_entries =
              IF Supplied("total_entries") THEN Upstream("total_entries") ELSE 0
        /\ result.value.pagination.total_pages =
              IF Supplied("total_pages") THEN Upstream("total_pages") ELSE 0
    /\ tool = "search" /\ reply.kind = "ok" => pc = "returned"

\* C4 as amended: page and per_page are the upstream values when the
\* provider supplied them with a non-zero value, and the request's own page
\* and per_page when the provider omitted them or sent 0; total_entries and
\* total_pages are the upstream values or 0; a 2xx answer without pagination
\* metadata does not make the search fail.
C4_PaginationUpstreamWhenNonZero ==
    /\ SearchReturned =>
        /\ result.value.pagination.page =
              IF SuppliedNonZero("page") THEN Upstream("page") ELSE RequestPage
        /\ result.value.pagination.per_page =
              IF SuppliedNonZero("per_page") THEN Upstream("per_page") ELSE RequestPerPage
        /\ result.value.pagination.total_entries =
              IF Supplied("total_entries") THEN Upstream("total_entries") ELSE 0
        /\ result.value.pagination.total_pages =
              IF Supplied("total_pages") THEN Upstream("total_pages") ELSE 0
    /\ tool = "search" /\ reply.kind = "ok" => pc = "returned"

\* A search for page 2, one per page, answered without any pagination block.
C4_Witness ==
    /\ SearchReturned
    /\ input.page = Some(2) /\ input.per_page = Some(1)
    /\ ProviderJson.pagination = Null
    /\ result.value.pagination =
          [page |-> 2, per_page |-> 1, total_entries |-> 0, total_pages |-> 0]

RECURSIVE FirstAppearances(_)
\* The values of a sequence in order of first appearance, each once.
FirstAppearances(vals) ==
    IF vals = <<>> THEN <<>>
    ELSE LET before == FirstAppearances(SubSeq(vals, 1, Len(vals) - 1))
             last == vals[Len(vals)]
         IN IF \E i \in 1..Len(before) : before[i] = last
            THEN before ELSE Append(before, last)

\* The person's sanitized_phone (if any) followed by the sanitized_number of
\* each entry of its phone_numbers list.
SanitizedCandidates(person) ==
    (IF person.sanitized_phone = Null THEN <<>> ELSE <<Val(person.sanitized_phone)>>)
    \o (IF person.phone_numbers = Null THEN <<>>
        ELSE [i \in 1..Len(Val(person.phone_numbers)) |->
                Val(Val(person.phone_numbers)[i].sanitized_number)])

NoDuplicates(list) ==
    \A i, j \in 1..Len(list) : list[i] = list[j] => i = j

\* C5 as stated: the normalized phone_numbers are the sanitized_phone (if
\* present) followed by each sanitized_number not already in the result, in
\* order of first appearance, no value twice.
C5_PhonesFirstAppearances ==
    pc = "enriched" =>
        /\ result.phone_numbers = FirstAppearances(SanitizedCandidates(input))
        /\ NoDuplicates(result.phone_numbers)

\* C5 as amended: the normalized phone_numbers are the non-empty
\* sanitized_phone (if present) followed by each non-empty sanitized_number
\* not already in the result, in order of first appearance, no value twice;
\* an empty sanitized value is left out.
C5_PhonesNonEmptyFirstAppearances ==
    pc = "enriched" =>
        /\ result.phone_numbers =
              FirstAppearances(SelectSeq(SanitizedCandidates(input), LAMBDA v : v /= ""))
        /\ NoDuplicates(result.phone_numbers)

\* Sanitized values [A, B, A, C] normalized to [A, B, C].
C5_Witness ==
    /\ pc = "enriched"
    /\ input.sanitized_phone = Null
    /\ input.phone_numbers /= Null
    /\ SanitizedCandidates(input) = <<"+1-555", "+1-999", "+1-555", "+44-20">>
    /\ result.phone_numbers = <<"+1-555", "+1-999", "+44-20">>

\* C6: every person executeSearchPeople returns has email = null and empty
\* personal_emails and phone_numbers, whatever the provider sent, and the
\* people are the provider's, in number and in order.
C6_SearchPeopleCarryNoContacts ==
    SearchReturned =>
        LET sent == IF ProviderJson.people = Null THEN <<>> ELSE Val(ProviderJson.people)
            people == result.value.people
        IN /\ Len(people) = Len(sent)
           /\ \A i \in 1..Len(people) :
                /\ people[i].email = Null
                /\ people[i].personal_emails = <<>>
                /\ people[i].phone_numbers = <<>>
                /\ people[i].apollo_id = sent[i].id

\* Two people returned, the second of whom the provider sent with contacts.
C6_Witness ==
    /\ SearchReturned
    /\ ProviderJson.people = Some(<<PersonBare, PersonWithContacts>>)
    /\ Len(result.value.people) = 2
    /\ result.value.people[2].apollo_id = Some("p2")
    /\ result.value.people[2].email = Null

\* The first / the second client's call was answered with a non-2xx status.
FirstRefused == pc = "threw" /\ reply.kind = "http-error"
TwinRefused == twin.pc = "threw" /\ twin.reply.kind = "http-error"

\* C7: the error raised for a non-2xx answer carries the status code and the
\* status text and nothing of the credential or the request body: two calls
\* that get the same status code and status text raise identical errors,
\* whatever their API keys and request bodies.
C7_ErrorDependsOnStatusOnly ==
    /\ FirstRefused =>
          result = [kind |-> "Error",
                    message |-> "Apollo API error: " \o ToString(reply.status) \o " "
                                \o reply.statusText]
    /\ (/\ FirstRefused
        /\ TwinRefused
        /\ reply.status = twin.reply.status
        /\ reply.statusText = twin.reply.statusText) => result = twin.result

\* Two clients with different keys and different bodies, both answered 500.
C7_Witness ==
    /\ FirstRefused
    /\ TwinRefused
    /\ apiKey /= twin.apiKey
    /\ body /= twin.body
    /\ reply.status = 500 /\ twin.reply.status = 500
    /\ reply.statusText = twin.reply.statusText
    /\ result = twin.result

\* C8: a call of the client's search or enrich operation makes exactly one
\* HTTP POST, whether the POST succeeds or fails; a failed upstream call ends
\* the call with an error and the request is not sent again.
C8_ExactlyOnePost ==
    /\ pc = "awaiting" => posts = 1 /\ reply.kind = "none"
    /\ reply.kind /= "none" => posts = 1 /\ pc \in {"returned", "threw"}
    /\ reply.kind \in {"http-error", "network", "unparsable"} =>
          pc = "threw" /\ result.kind \in {"Error", "TypeError", "SyntaxError"}
    /\ reply.kind = "ok" => pc = "returned"

\* A search whose single POST was answered 500 and that ended with the error.
C8_Witness ==
    /\ tool = "search"
    /\ pc = "threw"
    /\ reply.kind = "http-error" /\ reply.status = 500
    /\ posts = 1
    /\ result.kind = "Error"

\* An enrich request is in flight or was answered.
EnrichSent == tool = "enrich" /\ posts >= 1

\* C9: the enrich request body holds an identifier field only if the input
\* supplied it, and a reveal or waterfall flag only if the input has it true,
\* then with the value true: a flag that is absent or false is omitted.
C9_BodyHoldsOnlySuppliedAndTrue ==
    EnrichSent =>
        /\ \A f \in IdentifierFields :
              body[f] /= Null => input[f] /= Null /\ body[f] = input[f]
        /\ \A f \in FlagFields :
              /\ body[f] /= Null => input[f] = Some(TRUE) /\ body[f] = Some(TRUE)
              /\ input[f] \in {Null, Some(FALSE)} => body[f] = Null
              /\ body[f] /= Some(FALSE)

\* A request sent for an input with one flag false, one true and two absent.
C9_Witness ==
    /\ EnrichSent
    /\ input.reveal_personal_emails = Some(FALSE) /\ body.reveal_personal_emails = Null
    /\ input.reveal_phone_number = Some(TRUE) /\ body.reveal_phone_number = Some(TRUE)
    /\ input.run_waterfall_email = Null /\ body.run_waterfall_email = Null
    /\ input.first_name = Some("") /\ body.first_name = Null
    /\ input.email /= Null /\ body.email = input.email

\* One of the two normalizers has produced its person.
Normalized == pc \in {"enriched", "searched"}

\* C10 as stated: both normalizers always produce the company sub-record,
\* and for a person without organization object every field of it is null.
C10_CompanyAllNullWithoutOrganization ==
    Normalized =>
        /\ result.company /= Null
        /\ input.organization = Null =>
              \A f \in DOMAIN Val(result.company) : Val(result.company)[f] = Null

\* C10 as amended: both normalizers always produce the company sub-record,
\* and for a person without organization object its name, domain, website,
\* linkedin_url, industry and employee_count are null, while its id is the
\* person's organization_id, null only when the person has none.
C10_CompanyNullExceptIdWithoutOrganization ==
    Normalized =>
        /\ result.company /= Null
        /\ DOMAIN Val(result.company) =
              {"id", "name", "domain", "website", "linkedin_url", "industry",
               "employee_count"}
        /\ Val(result.company).id = input.organization_id
        /\ input.organization = Null =>
              \A f \in DOMAIN Val(result.company) \ {"id"} : Val(result.company)[f] = Null

\* A person with an organization_id and no organization object, normalized.
C10_Witness ==
    /\ pc = "searched"
    /\ input.organization = Null
    /\ input.organization_id = Some("org-1")
    /\ result.company =
          Some([id |-> Some("org-1"), name |-> Null, domain |-> Null, website |-> Null,
                linkedin_url |-> Null, industry |-> Null, employee_count |-> Null])

\* A search or enrich invocation that has got past its first step.
Started == tool \in {"search", "enrich"} /\ pc \in {"awaiting", "returned", "threw"}

\* The invocation's input passes its tool's schema.
InputValid ==
    IF tool = "enrich" THEN EnrichSchemaAccepts(input) ELSE SearchSchemaAccepts(input)

\* C12: in executeSearchPeople and executeEnrichPerson validation comes
\* before the provider call: an input that fails validation causes no HTTP
\* request (the invocation ends with the validation error, nothing sent and
\* nothing received), and an input that passes causes exactly one.
C12_ValidationBeforeProviderCall ==
    Started =>
        IF InputValid
        THEN posts = 1 /\ ~Rejected
        ELSE posts = 0 /\ Rejected /\ reply = NoReply

\* A search without job titles: rejected, and no request was made.
C12_Witness ==
    /\ tool = "search"
    /\ input.person_titles = Some(<<>>)
    /\ Rejected
    /\ posts = 0

\* A search-and-enrich invocation that returned its result.
BatchReturned == tool = "search_and_enrich" /\ pc = "returned"

\* The entry the enrichment of the i-th person left when it completed.
DoneEntry(i) == CHOOSE d \in {batch.done[k] : k \in 1..Len(batch.done)} : d.index = i

\* C11: a search-and-enrich result has one enrichment outcome per person
\* of the search page, the i-th outcome being that of the i-th person
\* whatever order the enrichments completed in; its summary counts the
\* non-async outcomes with a person, the non-async ones without, and the
\* async ones, and attempted = successful + failed + async_pending = the
\* number of outcomes; an enrichment that failed left an outcome with no
\* person and the failure as status, and no error is thrown once the
\* search has returned its page.
C11_OutcomesInSearchOrderAndCounted ==
    /\ BatchReturned =>
        LET out == result.value
            outcomes == out.enriched_people
            summary == out.enrichment_summary
            n == Len(batch.people)
        IN /\ Len(outcomes) = n
           /\ \A i \in 1..n :
                /\ outcomes[i] = DoneEntry(i).outcome
                /\ outcomes[i].person /= Null =>
                        Val(outcomes[i].person).apollo_id = batch.people[i].apollo_id
                /\ DoneEntry(i).error /= Null =>
                        /\ outcomes[i].person = Null
                        /\ outcomes[i].status = Some(Val(DoneEntry(i).error).message)
           /\ summary.attempted = n
           /\ summary.attempted = summary.successful + summary.failed + summary.async_pending
           /\ summary.successful =
                Cardinality({i \in 1..n : outcomes[i].person /= Null /\ ~outcomes[i].is_async})
           /\ summary.failed =
                Cardinality({i \in 1..n : outcomes[i].person = Null /\ ~outcomes[i].is_async})
           /\ summary.async_pending = Cardinality({i \in 1..n : outcomes[i].is_async})
    /\ (tool = "search_and_enrich" /\ pc = "threw") =>
            batch.issued = 0 /\ batch.done = <<>>

\* A page of at least two people whose enrichments completed out of page
\* order, one of them failing and one succeeding.
C11_Witness ==
    /\ BatchReturned
    /\ Len(batch.people) >= 2
    /\ batch.done[1].index /= 1
    /\ \E i \in 1..Len(batch.done) : batch.done[i].error /= Null
    /\ result.value.enrichment_summary.failed >= 1
    /\ result.value.enrichment_summary.successful >= 1

====
